---- MODULE Spec2Model ----
(***************************************************************************)
(* NoteMeetSpawner: one recording session of GoogleMeetRecorder, driven by  *)
(* BaseMeetingRecorder.recordMeeting, together with the capture script that *)
(* runs inside the controlled page.                                         *)
(*                                                                          *)
(* The controller (Node side) and the page (browser side) are two           *)
(* processes.  Every driver call of the controller is one atomic step; the  *)
(* page's tasks (promise continuations, timers, recorder and reader events) *)
(* interleave freely between them.  Time is not modelled: a sleep or a      *)
(* timer only orders events, its length is accumulated where the code       *)
(* computes it (the duration sleeps, the 3 s poll interval).                *)
(***************************************************************************)
EXTENDS Integers, Sequences, FiniteSets, TLC

(***************************************************************************)
(* Bounds of the model                                                      *)
(***************************************************************************)
\* largest number of non-empty chunks the recorder delivers in a session
MaxChunks == 2
\* largest configured durationMinutes
MaxDuration == 1
MaxElements == 1

(***************************************************************************)
(* Program constants                                                        *)
(***************************************************************************)
maxAttempts == 15
\* recorder.start(5000), and recorder.start(1000) from the 5100 ms timer
FirstTimeslice == 5000
NextTimeslice == 1000
intervalMs == 3000

VARIABLES
    config,        \* the IMeetingConfig / handler event of this session
    pc,            \* position of the controller in handler/recordMeeting
    driver,        \* this.driver: "null" | "live" | "quit"
    s3Client,      \* this.s3Client !== null
    counts,        \* calls made so far: quit, cleanup, browsers, screenshots
    trace,         \* the stages started so far, in order
    slept,         \* total ms spent in the duration sleeps
    logs,          \* log lines written so far (by tag)
    storage,       \* files and objects written (counts, the paths in
                   \* files / objects, the bytes of the recording in
                   \* written / uploaded), and the upload in flight
    stop,          \* locals of stopRecording: attempts, waits, reads
    outcome,       \* how the constructor, recordMeeting and the handler ended
    page,          \* the window of the controlled page (capture script state)
    reuse          \* recordMeeting called twice on one instance: the position
                   \* of each call, this.driver as a browser id, the browsers
                   \* started and the quit calls each one received

vars == <<config, pc, driver, s3Client, counts, trace, slept, logs, storage,
          stop, outcome, page, reuse>>

StorageTypes == {"local", "s3", "both", "unspecified"}
S3Configs == {"absent", "partial", "complete"}

\* the s3Config values that make a difference for a storage type: a session
\* with storageType local or unspecified never reads config.s3Config
S3ConfigsFor(st) ==
    IF st \in {"s3", "both"} THEN S3Configs ELSE {"absent"}

\* IMeetingConfig values a caller can pass.  A direct caller (as main does)
\* passes a fixed durationMinutes; the handler takes it from its event, fixes
\* storageType to "local" and always passes an s3Config built from the
\* environment, whose fields may be undefined.
Configs ==
    {c \in [entry : {"direct"}, hasUrl : {TRUE}, storageType : StorageTypes,
            s3Config : S3Configs, durationMinutes : {1}] :
        c.s3Config \in S3ConfigsFor(c.storageType)}
    \cup
    {[entry |-> "handler", hasUrl |-> u, storageType |-> "local",
      s3Config |-> sc, durationMinutes |-> d] :
        u \in BOOLEAN, sc \in {"partial", "complete"}, d \in 1..MaxDuration}

\* the two recordMeeting calls made on one instance
Calls == {1, 2}

\* this.driver = null, among the browser ids
NoBrowser == 0

\* the instance before recordMeeting is called
ReuseIdle ==
    [calls |-> [i \in Calls |-> "idle"], driver |-> NoBrowser, started |-> {},
     quits |-> [b \in Calls |-> 0]]

\* window.* before the capture script is injected: everything undefined
PageInit ==
    [script |-> "none",            \* position of the async setup function
     recordingState |-> "unknown", \* window.recordingState (undefined -> 'unknown')
     recordingError |-> "null",    \* window.recordingError
     chunks |-> <<>>,              \* window.recordingChunks
     nextChunk |-> 1,              \* id of the next chunk the recorder delivers
     recorder |-> "none",          \* recorder.state, "none" when recorder is null
     timer |-> FALSE,              \* the 5100 ms setTimeout is pending
     stopFn |-> FALSE,             \* typeof window.stopScreenRecording === 'function'
     onstop |-> FALSE,             \* recorder.onstop is assigned
     stopEvents |-> <<>>,          \* queued recorder stop tasks, each with
                                   \* the timeslice of the run it ends
     timeslice |-> 0,              \* the argument of the last recorder.start
     switches |-> 0,               \* restarts done by the 5100 ms timer
     firstSlice |-> 0,             \* the timeslice recordingChunks[0] was
                                   \* gathered under
     mimeType |-> "none",          \* window.selectedMimeType
     \* the document's audio elements and the locals of the setup task,
     \* followed in ScriptSpec only:
     dom |-> {},                   \* document.querySelectorAll('audio')
     supported |-> {},             \* the types isTypeSupported accepts
     audioSetup |-> "none",        \* how the try block of step 2 ended
     destination |-> FALSE,        \* audioDestination is not null
     combined |-> FALSE,           \* step 3 built the new MediaStream
     stream |-> [video |-> 0, audio |-> 0],  \* tracks of combinedStream
     usable |-> 0,                 \* usableAudioElements.length
     silent |-> FALSE,             \* the oscillator is connected
     readers |-> <<>>,             \* blobs (bytes) being read by a FileReader
     promise |-> "none",           \* the promise returned by stopScreenRecording
     base64 |-> <<>>,              \* window.recordedVideoBase64: the characters
                                   \* of a data URL (<<>> = unset or null)
     released |-> FALSE,           \* the tracks were stopped and the audio
                                   \* context, if any, closed
     assembled |-> 0]              \* number of blobs assembled by recorder.onstop

StopInit ==
    [attempts |-> 0,            \* attempts
     videoAvailable |-> FALSE,  \* videoAvailable
     waitMs |-> 0,              \* total of the 3 s sleeps so far
     reads |-> 0,               \* status reads issued so far
     lastRead |-> "none",       \* dataStatus.state of the latest read
     lastAvailable |-> FALSE,   \* dataStatus.available of the latest read
     result |-> "none"]         \* stopResult.message

Init ==
    /\ config \in Configs
    /\ pc = "new"
    /\ driver = "null"
    /\ s3Client = FALSE
    /\ counts = [quit |-> 0, cleanup |-> 0, browsers |-> 0, screenshots |-> 0,
                 recoveries |-> 0]
    /\ trace = <<>>
    /\ slept = 0
    /\ logs = {}
    /\ storage = [localRecordings |-> 0, s3Recordings |-> 0,
                  localScreenshots |-> 0, s3Screenshots |-> 0,
                  upload |-> "none", retrieved |-> <<>>,
                  files |-> {}, objects |-> {}, fsCalls |-> <<>>,
                  written |-> <<>>, uploaded |-> <<>>]
    /\ stop = StopInit
    /\ outcome = [ctor |-> "none", failedAt |-> "none", completed |-> {},
                  optional |-> "none",
                  recordMeeting |-> "none", statusCode |-> 0]
    /\ page = PageInit
    /\ reuse = ReuseIdle

(***************************************************************************)
(* Bytes, blobs and their encoding.  A chunk is named by its position in    *)
(* the recorder's output; a string is the sequence of its characters, each  *)
(* character being its index in the base64 alphabet (A-Z a-z 0-9 + /,       *)
(* 0..63) or one of = : ; , (64..67).                                       *)
(***************************************************************************)
\* the EBML header 1A 45 DF A3 a WebM stream starts with
Signature == <<26, 69, 223, 163>>

\* the bytes of the i-th non-empty blob the recorder delivers: the first one
\* opens the container, the later ones are told apart by their number
ChunkBytes(i) == IF i = 1 THEN Signature ELSE <<i>>

RECURSIVE BlobBytes(_)
\* new Blob(parts): the parts' bytes, one after the other
BlobBytes(parts) ==
    IF parts = <<>> THEN <<>>
    ELSE ChunkBytes(Head(parts)) \o BlobBytes(Tail(parts))

\* variant: the header chunk is moved behind the others
StopParts_RestFirst(chunks) == Tail(chunks) \o <<chunks[1]>>

\* recorder.onstop: [firstChunk, ...restChunks]
StopParts(chunks) == <<chunks[1]>> \o Tail(chunks)

PadChar == 64
DataScheme == <<29, 26, 45, 26, 65>>                   \* "data:"
Base64Marker == <<27, 26, 44, 30, 58, 56, 67>>         \* "base64,"
\* the preference list of step 4, in its order
mimeTypes ==
    <<"video/webm;codecs=vp8,opus", "video/webm;codecs=vp9,opus", "video/webm">>

MimeTypes == {mimeTypes[i] : i \in DOMAIN mimeTypes}

RECURSIVE FirstSupported(_, _)
\* the for loop over the list: the first type MediaRecorder.isTypeSupported
\* accepts, "none" when the loop ends without a break
FirstSupported(list, supported) ==
    IF list = <<>> THEN "none"
    ELSE IF Head(list) \in supported THEN Head(list)
    ELSE FirstSupported(Tail(list), supported)

\* variant: the generic type whatever is supported
SelectMimeType_Generic(supported) == "video/webm"

\* selectedMimeType after the loop and the fallback that follows it
SelectMimeType(supported) ==
    IF FirstSupported(mimeTypes, supported) = "none" THEN "video/webm"
    ELSE FirstSupported(mimeTypes, supported)

MimeChars(m) ==
    LET webm == <<47, 34, 29, 30, 40, 63, 48, 30, 27, 38>>   \* "video/webm"
        codecs == <<66, 28, 40, 29, 30, 28, 44, 64>>         \* ";codecs="
        opus == <<67, 40, 41, 46, 44>>                       \* ",opus"
    IN  CASE m = "video/webm;codecs=vp8,opus" ->
                webm \o codecs \o <<47, 41, 60>> \o opus
          [] m = "video/webm;codecs=vp9,opus" ->
                webm \o codecs \o <<47, 41, 61>> \o opus
          [] OTHER -> webm

\* three bytes as four base64 digits
Enc3(b1, b2, b3) ==
    LET n == b1 * 65536 + b2 * 256 + b3
    IN  <<n \div 262144, (n \div 4096) % 64, (n \div 64) % 64, n % 64>>

RECURSIVE ToBase64(_)
\* base64 of a byte sequence, padded with = to a multiple of four characters
ToBase64(b) ==
    IF Len(b) = 0 THEN <<>>
    ELSE IF Len(b) = 1
    THEN LET q == Enc3(b[1], 0, 0) IN <<q[1], q[2], PadChar, PadChar>>
    ELSE IF Len(b) = 2
    THEN LET q == Enc3(b[1], b[2], 0) IN <<q[1], q[2], q[3], PadChar>>
    ELSE Enc3(b[1], b[2], b[3]) \o ToBase64(SubSeq(b, 4, Len(b)))

\* FileReader.readAsDataURL(blob): "data:" + blob.type + ";base64," + digits
ReadAsDataURL(mime, bytes) ==
    DataScheme \o MimeChars(mime) \o <<66>> \o Base64Marker \o ToBase64(bytes)

\* s.indexOf(pat) + 1: the first position where pat occurs in s, 0 if none
IndexOf(s, pat) ==
    LET hits == {i \in 1..(Len(s) - Len(pat) + 1) :
                    SubSeq(s, i, i + Len(pat) - 1) = pat}
    IN  IF hits = {} THEN 0
        ELSE CHOOSE i \in hits : \A j \in hits : i <= j

\* s.split(pat)[1] for an s that includes pat: what lies between the first
\* and the second occurrence of pat
SplitSecond(s, pat) ==
    LET rest == SubSeq(s, IndexOf(s, pat) + Len(pat), Len(s))
        next == IndexOf(rest, pat)
    IN  IF next = 0 THEN rest ELSE SubSeq(rest, 1, next - 1)

\* variant: the data URL is handed on as it is
StripDataUrl_Keep(s) == s

\* getRecordedVideo: includes("base64,") ? split("base64,")[1] : data
StripDataUrl(s) ==
    IF IndexOf(s, Base64Marker) # 0 THEN SplitSecond(s, Base64Marker) ELSE s

\* four base64 digits as three bytes
Dec4(d1, d2, d3, d4) ==
    LET n == d1 * 262144 + d2 * 4096 + d3 * 64 + d4
    IN  <<n \div 65536, (n \div 256) % 256, n % 256>>

RECURSIVE DecodeDigits(_)
DecodeDigits(d) ==
    IF Len(d) < 2 THEN <<>>
    ELSE IF Len(d) = 2 THEN <<Dec4(d[1], d[2], 0, 0)[1]>>
    ELSE IF Len(d) = 3 THEN SubSeq(Dec4(d[1], d[2], d[3], 0), 1, 2)
    ELSE Dec4(d[1], d[2], d[3], d[4]) \o DecodeDigits(SubSeq(d, 5, Len(d)))

\* Buffer.from(s, "base64"): the digits up to the first padding character
\* are decoded, characters outside the alphabet are skipped
FromBase64(s) ==
    LET pad == IndexOf(s, <<PadChar>>)
        data == IF pad = 0 THEN s ELSE SubSeq(s, 1, pad - 1)
    IN  DecodeDigits(SelectSeq(data, LAMBDA c : c < 64))

(***************************************************************************)
(* Paths and object keys (a path is the sequence of its segments; the      *)
(* Date.now() part of a file name is left out)                              *)
(***************************************************************************)
\* config.outputDirectory as the two entry points build it
OutputDirectory(c) ==
    IF c.entry = "handler" THEN <<"tmp", "meet-recordings">>
    ELSE <<"meet-recordings", "group1">>

\* path.join(dir, ...segments)
PathJoin(dir, segments) == dir \o segments

\* path.basename(p)
Basename(p) == p[Len(p)]

\* config.outputDirectory.split(path.sep).pop()
UsernameGroup(c) == Basename(OutputDirectory(c))

RecordingName == "meet-recording.webm"

\* saveToLocalStorage: localPath
RecordingPath(c) ==
    PathJoin(OutputDirectory(c), <<"recordings", RecordingName>>)

\* saveToS3Storage: s3Key
RecordingKey(c) == <<UsernameGroup(c), "recordings", RecordingName>>

\* screenshotPath, in recordMeeting's catch and in stopRecording alike
ScreenshotPath(c) ==
    PathJoin(OutputDirectory(c), <<"error-screenshot.png">>)

\* recordMeeting's catch: s3Key of the screenshot
ScreenshotKey(c) ==
    <<UsernameGroup(c), "screenshots", Basename(ScreenshotPath(c))>>

(***************************************************************************)
(* BaseMeetingRecorder: constructor                                         *)
(***************************************************************************)
\* validateConfig: TRUE when it throws
validateConfig(c) ==
    (c.storageType = "s3" \/ c.storageType = "both") /\ c.s3Config = "absent"

\* variant: a client is created whenever an s3Config is passed
initializeS3Client_WhenConfigured(c) == c.s3Config # "absent"

\* initializeS3Client: TRUE when a client is created
initializeS3Client(c) ==
    c.storageType = "s3" \/ c.storageType = "both"

\* what the caller of the constructor / recordMeeting does with a throw:
\* the handler's catch returns 500, main lets it reach main().catch
StatusOnThrow(c) == IF c.entry = "handler" THEN 500 ELSE 0
StatusOnReturn(c) == IF c.entry = "handler" THEN 200 ELSE 0

\* handler: the event has no meetingUrl
handlerMissingUrl ==
    /\ pc = "new"
    /\ config.entry = "handler"
    /\ ~config.hasUrl
    /\ pc' = "done"
    /\ outcome' = [outcome EXCEPT !.statusCode = 500]
    /\ UNCHANGED <<config, reuse, driver, s3Client, counts, trace, slept, logs,
                   storage, stop, page>>

\* new GoogleMeetRecorder(config)
constructor ==
    /\ pc = "new"
    /\ config.entry = "handler" => config.hasUrl
    /\ IF validateConfig(config)
       THEN /\ pc' = "done"
            /\ outcome' = [outcome EXCEPT !.ctor = "threw",
                                          !.statusCode = StatusOnThrow(config)]
            /\ UNCHANGED <<s3Client, logs>>
       ELSE /\ pc' = "constructed"
            /\ s3Client' = initializeS3Client(config)
            /\ logs' = logs \cup {"Session started"}
            /\ outcome' = [outcome EXCEPT !.ctor = "ok"]
    /\ UNCHANGED <<config, reuse, driver, counts, trace, slept, storage, stop, page>>

(***************************************************************************)
(* recordMeeting: the try block up to setupRecording                        *)
(***************************************************************************)
\* a stage returned normally
Completed(stage) == [outcome EXCEPT !.completed = @ \cup {stage}]

\* the results of an optional step that did all it was meant to do
OptionalDone == {"clicked", "all"}

\* a stage threw inside recordMeeting's try: control moves to the catch
Throw(stage) ==
    /\ pc' = "catch"
    /\ outcome' = [outcome EXCEPT !.failedAt = stage]

\* GoogleMeetRecorder.initializeDriver
initializeDriver ==
    /\ pc = "constructed"
    /\ trace' = Append(trace, "init")
    /\ \E ok \in BOOLEAN :
        IF ok
        THEN /\ driver' = "live"
             /\ counts' = [counts EXCEPT !.browsers = @ + 1]
             /\ pc' = "join"
             /\ outcome' = Completed("init")
        ELSE /\ Throw("init")
             /\ UNCHANGED <<driver, counts>>
    /\ UNCHANGED <<config, reuse, s3Client, slept, logs, storage, stop, page>>

\* variant: a failed optional step aborts the stage
AfterOptional_Aborts(next, r) == IF r \in OptionalDone THEN next ELSE "catch"

\* the try/catch around an optional step: whatever it did, the controller
\* goes on with the mandatory step that follows
AfterOptional(next, r) == next

\* GoogleMeetRecorder.joinMeeting: driver.get
joinMeeting ==
    /\ pc = "join"
    /\ trace' = Append(trace, "join")
    /\ \E ok \in BOOLEAN :
        IF ok
        THEN pc' = "signIn" /\ UNCHANGED outcome
        ELSE Throw("join")
    /\ UNCHANGED <<config, reuse, driver, s3Client, counts, slept, logs, storage,
                   stop, page>>

SignInResults == {"clicked", "notFound", "clickFails"}

\* joinMeeting: the sign-in prompt, waited for 10 s inside a try/catch
joinMeeting_signIn ==
    /\ pc = "signIn"
    /\ \E r \in SignInResults :
        /\ pc' = AfterOptional("nameInput", r)
        /\ outcome' = [outcome EXCEPT !.optional = r]
    /\ UNCHANGED <<config, reuse, driver, s3Client, counts, trace, slept, logs,
                   storage, stop, page>>

JoinResults == {"ok", "nameInput", "joinButton", "meetingUi"}

\* joinMeeting: name input (15 s), join button (20 s), meeting interface
\* (20 s)
joinMeeting_enter ==
    /\ pc = "nameInput"
    /\ \E r \in JoinResults :
        IF r = "ok"
        THEN /\ pc' = "setup"
             /\ outcome' = [Completed("join") EXCEPT !.optional = "none"]
        ELSE /\ pc' = "catch"
             /\ outcome' = [outcome EXCEPT !.failedAt = "join",
                                           !.optional = "none"]
    /\ UNCHANGED <<config, reuse, driver, s3Client, counts, trace, slept, logs,
                   storage, stop, page>>

(***************************************************************************)
(* The capture script (getScreenRecordingScript), page side                 *)
(***************************************************************************)
\* the synchronous prefix of the injected async function, up to the await of
\* getDisplayMedia
ScriptStart(p) ==
    [p EXCEPT !.script = "requesting",
              !.recordingState = "initializing",
              !.chunks = <<>>,
              !.recordingError = "null"]

ScreenResults == {"ok", "rejects", "noVideoTracks"}
AudioResults == {"ok", "contextThrows", "graphThrows"}
AudioOk(audio) == audio = "ok"

\* window.recordingError after steps 2-4: each failing step overwrites it
SetupError(audio, combineOk, rec) ==
    IF rec # "ok" THEN "Recorder setup failed"
    ELSE IF ~combineOk THEN "Stream combination failed"
    ELSE IF ~AudioOk(audio) THEN "Audio setup failed"
    ELSE "null"

\* the ancestor levels the self-audio filter looks at
AncestorDepth == 5

RECURSIVE SelfViewWithin(_, _, _)
\* the while loop of the filter: parent is the ancestor at `level`, and it
\* carries the self-view marker when level = e.selfViewAt
SelfViewWithin(e, level, depth) ==
    IF depth < AncestorDepth
    THEN IF level = e.selfViewAt THEN TRUE
         ELSE SelfViewWithin(e, level + 1, depth + 1)
    ELSE FALSE

\* the filter callback of usableAudioElements
UsableAudio(e) ==
    IF ~e.srcObject \/ e.muted THEN FALSE
    ELSE ~SelfViewWithin(e, 1, 0)

\* usableAudioElements.length (0 when step 2 threw before the filter ran)
UsableCount(audio, els) ==
    IF AudioOk(audio) THEN Cardinality({e \in els : UsableAudio(e)}) ELSE 0

\* variant: the oscillator is connected in every case
ConnectsSilent_Always(audio, els) == AudioOk(audio)

\* the else branch of step 2: the oscillator is connected when no usable
\* audio element was found
ConnectsSilent(audio, els) == AudioOk(audio) /\ UsableCount(audio, els) = 0

\* audioDestination was assigned: the AudioContext and its destination node
\* were built before anything threw
HasDestination(audio) == audio # "contextThrows"

\* variant: a destination without a track
DestinationTracks_None(audio) == 0

\* audioDestination.stream.getAudioTracks().length, nothing being added
\* while audioDestination is null
DestinationTracks(audio) == IF HasDestination(audio) THEN 1 ELSE 0

\* variant: a failed combination leaves the recorder without a stream
CombinedStream_NoFallback(audio, combineOk) ==
    IF combineOk THEN [video |-> 1, audio |-> DestinationTracks(audio)]
    ELSE [video |-> 0, audio |-> 0]

\* step 3: the video tracks of the screen stream plus the destination's
\* audio tracks; the screen stream alone (requested with audio: false) when
\* combining throws
CombinedStream(audio, combineOk) ==
    IF combineOk THEN [video |-> 1, audio |-> DestinationTracks(audio)]
    ELSE [video |-> 1, audio |-> 0]

\* variant: step 4 ends without assigning window.stopScreenRecording
DefinesStop_Never(rec) == FALSE

\* window.stopScreenRecording is assigned at the end of the try block of
\* step 4, after recorder.start() has returned
DefinesStop(rec) == rec = "ok"

\* the continuation of the async function once getDisplayMedia has settled:
\* steps 1-4 run to the end in one task; what it leaves in window
ScriptSetup(p, screen, audio, combineOk, rec, mime) ==
    IF screen # "ok"
    THEN [p EXCEPT !.script = "ended",
                   !.recordingError = "Screen capture failed"]
    ELSE IF rec = "ok"
    THEN [p EXCEPT !.script = "ended",
                   !.mimeType = mime,
                   !.recordingError = SetupError(audio, combineOk, rec),
                   !.chunks = <<>>,
                   !.recorder = "recording",
                   !.timeslice = FirstTimeslice,
                   !.timer = TRUE,
                   !.recordingState = "recording",
                   !.stopFn = DefinesStop(rec)]
    ELSE [p EXCEPT !.script = "ended",
                   !.mimeType = mime,
                   !.recordingError = SetupError(audio, combineOk, rec),
                   !.chunks = <<>>,
                   !.recorder = IF rec = "startThrows" THEN "inactive" ELSE "none"]

\* the locals steps 2 and 3 of the same task leave in the closure, for the
\* audio elements els of the document
SetupLocals(p, screen, audio, combineOk, els) ==
    IF screen # "ok" THEN p
    ELSE [p EXCEPT !.audioSetup = IF AudioOk(audio) THEN "ok" ELSE "threw",
                   !.destination = HasDestination(audio),
                   !.combined = combineOk,
                   !.stream = CombinedStream(audio, combineOk),
                   !.usable = UsableCount(audio, els),
                   !.silent = ConnectsSilent(audio, els)]

RecorderResults == {"ok", "ctorThrows", "startThrows"}

\* an audio element of the document: whether it has a srcObject, whether it
\* is muted, and the level of its nearest ancestor marked as self view (0:
\* no such ancestor)
AudioElements ==
    [srcObject : BOOLEAN, muted : BOOLEAN,
     selfViewAt : {0, 1, AncestorDepth, AncestorDepth + 1}]

\* the documents the script is run on: at most MaxElements audio elements
Doms == {d \in SUBSET AudioElements : Cardinality(d) <= MaxElements}

\* the page runs only while its browser does
PageAlive == driver = "live"

page_setup ==
    /\ PageAlive
    /\ page.script = "requesting"
    /\ \E screen \in ScreenResults, audio \in AudioResults,
          combineOk \in BOOLEAN, rec \in RecorderResults,
          supported \in SUBSET MimeTypes :
        page' = ScriptSetup(page, screen, audio, combineOk, rec,
                            SelectMimeType(supported))
    /\ UNCHANGED <<config, reuse, pc, driver, s3Client, counts, trace, slept, logs,
                   storage, stop, outcome>>

\* recorder.ondataavailable with a non-empty blob, gathered by a run of the
\* recorder started with the timeslice slice
ondataavailable(p, slice) ==
    [p EXCEPT !.chunks = Append(@, p.nextChunk), !.nextChunk = @ + 1,
              !.firstSlice = IF p.chunks = <<>> THEN slice ELSE @]

\* a timeslice elapses while the recorder is recording (the task of a stop
\* that was queued before the run began is dispatched first)
page_dataavailable ==
    /\ PageAlive
    /\ page.recorder = "recording"
    /\ page.stopEvents = <<>>
    /\ Len(page.chunks) < MaxChunks
    /\ page' = ondataavailable(page, page.timeslice)
    /\ UNCHANGED <<config, reuse, pc, driver, s3Client, counts, trace, slept, logs,
                   storage, stop, outcome>>

\* recorder.stop(): the recorder becomes inactive and a task is queued that
\* fires dataavailable and then stop
RecorderStop(p) ==
    [p EXCEPT !.recorder = "inactive",
              !.stopEvents = Append(@, p.timeslice)]

\* the recorder ends on its own (the captured tracks end, or the recorder
\* fails): the browser makes it inactive and queues the same task as stop()
page_recorderEnds ==
    /\ PageAlive
    /\ page.recorder = "recording"
    /\ page' = RecorderStop(page)
    /\ UNCHANGED <<config, reuse, pc, driver, s3Client, counts, trace, slept, logs,
                   storage, stop, outcome>>

\* variant: the timer restarts the recorder whatever its state
SwitchesChunks_Always(p) == TRUE

\* if (recorder && recorder.state === 'recording')
SwitchesChunks(p) == p.recorder = "recording"

\* the 5100 ms timer: stop and restart with 1 s chunks if still recording
ChunkSwitch(p) ==
    IF SwitchesChunks(p)
    THEN [RecorderStop(p) EXCEPT !.recorder = "recording",
                                 !.timeslice = NextTimeslice,
                                 !.switches = @ + 1,
                                 !.timer = FALSE]
    ELSE [p EXCEPT !.timer = FALSE]

page_timer ==
    /\ PageAlive
    /\ page.timer
    /\ page' = ChunkSwitch(page)
    /\ UNCHANGED <<config, reuse, pc, driver, s3Client, counts, trace, slept, logs,
                   storage, stop, outcome>>

Settle(p, how) == IF p.promise = "pending" THEN how ELSE p.promise

\* window.stopScreenRecording(): the synchronous body of the promise executor
stopScreenRecording(p) ==
    IF p.recorder = "none"
    THEN [p EXCEPT !.recordingState = "stopping",
                   !.recordingError = "No recorder available",
                   !.promise = "rejected"]
    ELSE [(IF p.recorder = "recording" THEN RecorderStop(p) ELSE p)
            EXCEPT !.recordingState = "stopping",
                   !.promise = "pending",
                   !.onstop = TRUE]

\* recorder.onstop as assigned by stopScreenRecording
onstopHandler(p) ==
    IF p.chunks = <<>>
    THEN [p EXCEPT !.recordingState = "processing",
                   !.recordingError = "No recording chunks available",
                   !.promise = Settle(p, "rejected")]
    ELSE [p EXCEPT !.recordingState = "processing",
                   !.readers = Append(@, BlobBytes(StopParts(p.chunks))),
                   !.assembled = @ + 1]

\* a queued recorder stop task runs: dataavailable (possibly empty), then stop
page_stopEvent ==
    /\ PageAlive
    /\ page.stopEvents # <<>>
    /\ \E data \in BOOLEAN :
        /\ data => Len(page.chunks) < MaxChunks
        /\ LET p1 == IF data THEN ondataavailable(page, Head(page.stopEvents))
                     ELSE page
               p2 == [p1 EXCEPT !.stopEvents = Tail(@)]
           IN  page' = IF p2.onstop THEN onstopHandler(p2) ELSE p2
    /\ UNCHANGED <<config, reuse, pc, driver, s3Client, counts, trace, slept, logs,
                   storage, stop, outcome>>

RemoveAt(s, i) == [j \in 1..(Len(s) - 1) |-> IF j < i THEN s[j] ELSE s[j + 1]]

\* reader.onloadend (after reader.onerror when the read failed, in which case
\* reader.result is null)
ReaderEnd(p, i, ok) ==
    [p EXCEPT !.readers = RemoveAt(@, i),
              !.base64 = IF ok THEN ReadAsDataURL(p.mimeType, p.readers[i])
                         ELSE <<>>,
              !.recordingError = IF ok THEN @ ELSE "FileReader error",
              !.released = TRUE,
              !.recordingState = "completed",
              !.promise = Settle(p, IF ok THEN "resolved" ELSE "rejected")]

page_readerEnd ==
    /\ PageAlive
    /\ \E i \in DOMAIN page.readers, ok \in BOOLEAN :
        page' = ReaderEnd(page, i, ok)
    /\ UNCHANGED <<config, reuse, pc, driver, s3Client, counts, trace, slept, logs,
                   storage, stop, outcome>>

(***************************************************************************)
(* GoogleMeetRecorder.setupRecording and the duration sleeps                *)
(***************************************************************************)
\* the best-effort block: mute the microphone, turn the camera off, dismiss
\* the safety popup; every failure in it is caught
MuteResults == {"all", "popupMissing", "cameraFailed", "micFailed"}

\* setupRecording: microphone, camera and safety popup, inside a try/catch
setupRecording ==
    /\ pc = "setup"
    /\ trace' = Append(trace, "setup")
    /\ \E m \in MuteResults :
        /\ pc' = AfterOptional("inject", m)
        /\ outcome' = [outcome EXCEPT !.optional = m]
    /\ UNCHANGED <<config, reuse, driver, s3Client, counts, slept, logs, storage,
                   stop, page>>

InjectResults == {"ok", "leaveCall", "inject"}

\* setupRecording: wait for the Leave call button (20 s) and inject the
\* capture script
setupRecording_inject ==
    /\ pc = "inject"
    /\ \E r \in InjectResults :
        IF r = "ok"
        THEN /\ page' = ScriptStart(page)
             /\ pc' = "setupSleep"
             /\ outcome' = [outcome EXCEPT !.optional = "none"]
        ELSE /\ pc' = "catch"
             /\ outcome' = [outcome EXCEPT !.failedAt = "setup",
                                           !.optional = "none"]
             /\ UNCHANGED page
    /\ UNCHANGED <<config, reuse, driver, s3Client, counts, trace, slept, logs,
                   storage, stop>>

DurationMs(c) == c.durationMinutes * 60 * 1000

\* the setTimeout at the end of setupRecording
setupRecording_sleep ==
    /\ pc = "setupSleep"
    /\ trace' = Append(trace, "wait")
    /\ slept' = slept + DurationMs(config)
    /\ pc' = "sleep"
    /\ outcome' = Completed("setup")
    /\ UNCHANGED <<config, reuse, driver, s3Client, counts, logs, storage, stop, page>>

\* the setTimeout in recordMeeting between setupRecording and stopRecording
recordMeeting_sleep ==
    /\ pc = "sleep"
    /\ trace' = Append(trace, "wait")
    /\ slept' = slept + DurationMs(config)
    /\ pc' = "stop"
    /\ UNCHANGED <<config, reuse, driver, s3Client, counts, logs, storage, stop,
                   outcome, page>>

(***************************************************************************)
(* GoogleMeetRecorder.stopRecording                                         *)
(***************************************************************************)
\* stopRecording's catch logs and rethrows into recordMeeting's catch
\* (the locals of stopRecording go with its frame)
StopThrowOf(message) ==
    /\ Throw("stop")
    /\ logs' = logs \cup {"Failed to stop recording"} \cup message
    /\ stop' = StopInit

\* the same for an error of the driver, whose message is left out
StopThrow == StopThrowOf({})

\* the first executeScript: read window.recordingState / recordingError
stopRecording_readState ==
    /\ pc = "stop"
    /\ trace' = Append(trace, "stop")
    /\ \E ok \in BOOLEAN :
        IF ok
        THEN /\ pc' = "stopCall"
             /\ UNCHANGED <<logs, outcome, stop>>
        ELSE StopThrow
    /\ UNCHANGED <<config, reuse, driver, s3Client, counts, slept, storage, page>>

\* the second executeScript: call window.stopScreenRecording when it is a
\* function, else report "Stop function not found"
stopRecording_call ==
    /\ pc = "stopCall"
    /\ \E ok \in BOOLEAN :
        IF ~ok
        THEN StopThrow /\ UNCHANGED page
        ELSE IF page.stopFn
        THEN /\ page' = stopScreenRecording(page)
             /\ stop' = [stop EXCEPT !.result = "pending"]
             /\ pc' = "stopAwait"
             /\ UNCHANGED <<logs, outcome>>
        ELSE /\ stop' = [stop EXCEPT !.result = "Stop function not found"]
             /\ pc' = "debug"
             /\ UNCHANGED <<page, logs, outcome>>
    /\ UNCHANGED <<config, reuse, driver, s3Client, counts, trace, slept, storage>>

\* the stop promise settled: executeScript returns {success, message}
stopRecording_settled ==
    /\ pc = "stopAwait"
    /\ page.promise \in {"resolved", "rejected"}
    /\ stop' = [stop EXCEPT !.result =
                  IF page.promise = "resolved"
                  THEN "Recording stopped successfully" ELSE "Error during stop"]
    /\ pc' = "poll"
    /\ UNCHANGED <<config, reuse, driver, s3Client, counts, trace, slept, logs,
                   storage, outcome, page>>

\* variant: executeScript waits for the promise without a limit
ScriptTimesOut_Never(p) == FALSE

\* the driver's script timeout ends an executeScript whose promise is still
\* pending
ScriptTimesOut(p) == p.promise = "pending"

\* the stop promise is still pending when the driver gives up on the script
stopRecording_scriptTimeout ==
    /\ pc = "stopAwait"
    /\ ScriptTimesOut(page)
    /\ StopThrow
    /\ UNCHANGED <<config, reuse, driver, s3Client, counts, trace, slept, storage,
                   page>>

\* variant: the recovery is attempted whatever the chunk count
NeedsRecovery_Always(chunkCount) == TRUE

\* if (debugInfo.chunkCount > 0)
NeedsRecovery(chunkCount) == chunkCount > 0

\* "Stop function not found": read the debug info; chunks call for the
\* emergency recovery
stopRecording_debug ==
    /\ pc = "debug"
    /\ \E ok \in BOOLEAN :
        IF ~ok
        THEN StopThrow
        ELSE /\ pc' = IF NeedsRecovery(Len(page.chunks)) THEN "recover"
                      ELSE "poll"
             /\ UNCHANGED <<logs, outcome, stop>>
    /\ UNCHANGED <<config, reuse, driver, s3Client, counts, trace, slept, storage, page>>

\* the emergency recovery script: assemble window.recordingChunks directly
\* and store the encoded blob
EmergencyRecovery(p, readOk) ==
    IF p.chunks = <<>> THEN p
    ELSE [p EXCEPT !.base64 =
            IF readOk THEN ReadAsDataURL(p.mimeType, BlobBytes(p.chunks))
            ELSE <<>>]

stopRecording_recover ==
    /\ pc = "recover"
    /\ counts' = [counts EXCEPT !.recoveries = @ + 1]
    /\ \E r \in {"ok", "readerError", "throws"} :
        IF r = "throws"
        THEN StopThrow /\ UNCHANGED page
        ELSE /\ page' = EmergencyRecovery(page, r = "ok")
             /\ pc' = "poll"
             /\ UNCHANGED <<logs, outcome, stop>>
    /\ UNCHANGED <<config, reuse, driver, s3Client, trace, slept, storage>>

\* !!window.recordedVideoBase64
Available(p) == p.base64 # <<>>

\* variant: the poll leaves on the state register instead of the data
PollSatisfied_State(p) == p.recordingState = "completed"

\* the poll's exit test on the status that was read
PollSatisfied(p) == Available(p)

\* variant: the loop falls through to the success path when it is exhausted
AfterPollMiss_NoThrow(n) == IF n < maxAttempts THEN "poll" ELSE "save"

\* variant: the bound is tested with <= instead of <
AfterPollMiss_OffByOne(n) == IF n <= maxAttempts THEN "poll" ELSE "pollTimeout"

\* where the loop goes after its n-th read found no video data (or threw):
\* sleep and read again while n < maxAttempts, else fall out of the loop
\* with videoAvailable still false
AfterPollMiss(n) == IF n < maxAttempts THEN "poll" ELSE "pollTimeout"

\* one iteration of the while loop: count the attempt, read the status (the
\* read may throw), leave on success, else sleep 3 s unless it was the last
stopRecording_poll ==
    /\ pc = "poll"
    /\ ~stop.videoAvailable /\ stop.attempts < maxAttempts
    /\ \E readOk \in BOOLEAN :
        LET n == stop.attempts + 1
            s1 == [stop EXCEPT !.attempts = n, !.reads = @ + 1,
                               !.lastRead = IF readOk THEN page.recordingState
                                            ELSE "threw",
                               !.lastAvailable = readOk /\ Available(page)]
        IN  IF readOk /\ PollSatisfied(page)
            THEN /\ stop' = [s1 EXCEPT !.videoAvailable = TRUE]
                 /\ pc' = "save"
                 /\ logs' = logs \cup {"Recording complete"}
                 /\ outcome' = Completed("stop")
            ELSE /\ stop' = IF AfterPollMiss(n) = "poll"
                            THEN [s1 EXCEPT !.waitMs = @ + intervalMs] ELSE s1
                 /\ pc' = AfterPollMiss(n)
                 /\ UNCHANGED <<logs, outcome>>
    /\ UNCHANGED <<config, reuse, driver, s3Client, counts, trace, slept, storage,
                   page>>

ShotResults == {"written", "writeFails", "takeFails"}

\* variant: the screenshot of stopRecording follows the storage mode
TimeoutScreenshot_ByMode(st, c) ==
    IF c.storageType = "s3"
    THEN [st EXCEPT !.s3Screenshots = @ + 1,
                    !.objects = @ \cup {ScreenshotKey(c)}]
    ELSE [st EXCEPT !.localScreenshots = @ + 1,
                    !.files = @ \cup {ScreenshotPath(c)}]

\* fs.writeFileSync(screenshotPath, ...) in stopRecording: no switch on the
\* storage mode
TimeoutScreenshot(st, c) ==
    [st EXCEPT !.localScreenshots = @ + 1,
               !.files = @ \cup {ScreenshotPath(c)}]

\* the loop ended without video data: local screenshot (best effort), throw
stopRecording_timeout ==
    /\ pc = "pollTimeout"
    /\ \E shot \in ShotResults :
        /\ counts' = [counts EXCEPT !.screenshots = @ + 1]
        /\ storage' = IF shot = "written"
                      THEN TimeoutScreenshot(storage, config)
                      ELSE storage
    /\ StopThrowOf({"Timed out waiting for video data"})
    /\ UNCHANGED <<config, reuse, driver, s3Client, trace, slept, page>>

(***************************************************************************)
(* BaseMeetingRecorder.saveRecording                                        *)
(***************************************************************************)
\* GoogleMeetRecorder.getRecordedVideo: the data, or <<>> for null (nothing
\* recorded, or executeScript threw)
getRecordedVideo(p, scriptOk) ==
    IF scriptOk /\ Available(p) THEN StripDataUrl(p.base64) ELSE <<>>

\* saveRecording's catch: log, return normally (lines: what the failing
\* destination logged before it rethrew)
SaveFailedAfter(lines) ==
    /\ logs' = logs \cup lines \cup {"Video save failed"}
    /\ pc' = "afterSave"

SaveFailed == SaveFailedAfter({})

saveRecording_retrieve ==
    /\ pc = "save"
    /\ trace' = Append(trace, "retrieve")
    /\ \E scriptOk \in BOOLEAN :
        LET data == getRecordedVideo(page, scriptOk)
        IN  /\ storage' = [storage EXCEPT !.retrieved = data]
            /\ IF data = <<>>
               THEN /\ logs' = logs \cup {"No video data found"}
                    /\ pc' = "afterSave"
               ELSE /\ pc' = "persist"
                    /\ UNCHANGED logs
    /\ stop' = StopInit
    /\ UNCHANGED <<config, reuse, driver, s3Client, counts, slept, outcome, page>>

\* the switch on storageType: which destinations are attempted
SavesLocal(c) == c.storageType # "s3"
SavesS3(c) == c.storageType # "local"

\* the log line of saveToLocalStorage: its info line, or the error line of
\* its catch
LocalSaveLine(localOk) ==
    IF localOk THEN "Video saved locally" ELSE "Local save failed"

\* the fs calls of saveToLocalStorage, in order: the directory is made when
\* it is missing, the buffer is written, the file is stat'ed for the log line
\* (a failing save throws in writeFileSync).  verifyWebMFile and
\* checkVideoFile have no caller.
LocalSaveCalls(dirExists, localOk) ==
    <<"existsSync">>
    \o (IF dirExists THEN <<>> ELSE <<"mkdirSync">>)
    \o <<"writeFileSync">>
    \o (IF localOk THEN <<"statSync">> ELSE <<>>)

\* variant: the destinations are awaited one after the other
StartsUpload_Sequential(c, client, localOk) ==
    SavesS3(c) /\ client /\ (SavesLocal(c) => localOk)

\* saveToS3Storage starts an upload when there is a client.  The array handed
\* to Promise.all is built first, so saveToS3Storage is called whatever
\* saveToLocalStorage did.
StartsUpload(c, client, localOk) == SavesS3(c) /\ client

\* variant: the clearing script is run without awaiting the upload
AfterPersist_NoAwait(starts) == "clear"

\* where saveRecording goes when no destination has rejected so far: it
\* awaits the upload it started, or runs the clearing script
AfterPersist(starts) == IF starts THEN "awaitUpload" ELSE "clear"

\* the switch in saveRecording.  saveToLocalStorage is synchronous inside;
\* saveToS3Storage throws at once without a client and otherwise starts an
\* upload; Promise.all rejects as soon as one of its promises rejects.
saveRecording_persist ==
    /\ pc = "persist"
    /\ trace' = Append(trace, "persist")
    /\ \E localOk \in BOOLEAN, dirExists \in BOOLEAN :
        LET wrote == SavesLocal(config) /\ localOk
            starts == StartsUpload(config, s3Client, localOk)
            rejected == \/ SavesLocal(config) /\ ~localOk
                        \/ SavesS3(config) /\ ~s3Client
            lines == IF SavesLocal(config) THEN {LocalSaveLine(localOk)} ELSE {}
        IN  /\ ~SavesLocal(config) => localOk /\ dirExists
            /\ storage' = [storage EXCEPT
                  !.localRecordings = IF wrote THEN @ + 1 ELSE @,
                  !.files = IF wrote THEN @ \cup {RecordingPath(config)} ELSE @,
                  !.fsCalls = IF SavesLocal(config)
                              THEN LocalSaveCalls(dirExists, localOk) ELSE @,
                  !.written = IF wrote THEN FromBase64(storage.retrieved) ELSE @,
                  !.upload = IF starts THEN "inflight" ELSE @]
            /\ IF rejected
               THEN SaveFailedAfter(lines)
               ELSE /\ pc' = AfterPersist(starts)
                    /\ logs' = logs \cup lines
    /\ UNCHANGED <<config, reuse, driver, s3Client, counts, slept, stop, outcome, page>>

\* the log line of saveToS3Storage when upload.done() settles
UploadLine(ok) == IF ok THEN "Video uploaded to S3" ELSE "S3 upload failed"

\* upload.done() of the recording settles: its then/catch logs, and
\* saveRecording resumes if it is still awaiting it
uploadSettles ==
    /\ storage.upload = "inflight"
    /\ \E ok \in BOOLEAN :
        /\ storage' = [storage EXCEPT
              !.upload = IF ok THEN "done" ELSE "failed",
              !.s3Recordings = IF ok THEN @ + 1 ELSE @,
              !.objects = IF ok THEN @ \cup {RecordingKey(config)} ELSE @,
              !.uploaded = IF ok THEN FromBase64(storage.retrieved) ELSE @]
        /\ IF pc = "awaitUpload"
           THEN IF ok
                THEN pc' = "clear" /\ logs' = logs \cup {UploadLine(ok)}
                ELSE SaveFailedAfter({UploadLine(ok)})
           ELSE logs' = logs \cup {UploadLine(ok)} /\ UNCHANGED pc
    /\ UNCHANGED <<config, reuse, driver, s3Client, counts, trace, slept, stop,
                   outcome, page>>

\* executeScript("window.recordedVideoBase64 = null;")
saveRecording_clear ==
    /\ pc = "clear"
    /\ \E ok \in BOOLEAN :
        IF ok
        THEN /\ page' = [page EXCEPT !.base64 = <<>>]
             /\ pc' = "afterSave"
             /\ UNCHANGED logs
        ELSE SaveFailed /\ UNCHANGED page
    /\ UNCHANGED <<config, reuse, driver, s3Client, counts, trace, slept, storage,
                   stop, outcome>>

\* saveRecording returned: recordMeeting logs and leaves the try block
recordMeeting_saved ==
    /\ pc = "afterSave"
    /\ logs' = logs \cup {"Recording saved to storage"}
    /\ pc' = "finally"
    /\ outcome' = Completed("save")
    /\ UNCHANGED <<config, reuse, driver, s3Client, counts, trace, slept, storage,
                   stop, page>>

(***************************************************************************)
(* recordMeeting: catch and finally                                         *)
(***************************************************************************)
\* where the catch block stores the screenshot
ScreenshotToS3(c) == c.storageType = "s3"

\* variant: cleanup at the end of the try block instead of in a finally
AfterCatch_NoFinally == "returned"

\* try/catch/finally: the finally block runs after the catch block too
AfterCatch == "finally"

\* the catch block: screenshot via this.driver?., store it, log the error
recordMeeting_catch ==
    /\ pc = "catch"
    /\ trace' = Append(trace, "diagnose")
    /\ pc' = AfterCatch
    /\ IF driver = "null"
       THEN UNCHANGED <<counts, storage, logs>>
       ELSE \E shot \in ShotResults :
            /\ counts' = [counts EXCEPT !.screenshots = @ + 1]
            /\ IF shot = "written"
               THEN /\ storage' = IF ScreenshotToS3(config)
                         THEN [storage EXCEPT
                                 !.s3Screenshots = @ + 1,
                                 !.objects = @ \cup {ScreenshotKey(config)}]
                         ELSE [storage EXCEPT
                                 !.localScreenshots = @ + 1,
                                 !.files = @ \cup {ScreenshotPath(config)}]
                    /\ logs' = logs \cup {"Error screenshot saved",
                                          "Recording failed"}
               ELSE /\ logs' = logs \cup {"Failed to save error screenshot"}
                    /\ UNCHANGED storage
    /\ UNCHANGED <<config, reuse, driver, s3Client, slept, stop, outcome, page>>

\* variant: cleanup only logs
QuitCalls_Skipped(d) == 0

\* this.driver?.quit(): the number of quit calls cleanup makes
QuitCalls(d) == IF d = "null" THEN 0 ELSE 1

\* the finally block: cleanup() = await this.driver?.quit(), then log; the
\* page and its window go with the browser
cleanup ==
    /\ pc = "finally"
    /\ trace' = Append(trace, "cleanup")
    /\ pc' = "returned"
    /\ IF QuitCalls(driver) = 0
       THEN /\ counts' = [counts EXCEPT !.cleanup = @ + 1]
            /\ logs' = logs \cup {"Session ended"}
            /\ outcome' = [outcome EXCEPT !.recordMeeting = "resolved"]
            /\ UNCHANGED <<driver, page>>
       ELSE \E ok \in BOOLEAN :
            /\ counts' = [counts EXCEPT !.cleanup = @ + 1,
                                        !.quit = @ + QuitCalls(driver)]
            /\ driver' = IF ok THEN "quit" ELSE driver
            /\ page' = IF ok THEN PageInit ELSE page
            /\ logs' = IF ok THEN logs \cup {"Session ended"} ELSE logs
            /\ outcome' = [outcome EXCEPT !.recordMeeting =
                              IF ok THEN "resolved" ELSE "rejected"]
    /\ UNCHANGED <<config, reuse, s3Client, slept, storage, stop>>

\* the caller of recordMeeting: the handler maps the settled promise to a
\* status code, main has nothing to return
handler_return ==
    /\ pc = "returned"
    /\ pc' = "done"
    /\ outcome' = [outcome EXCEPT !.statusCode =
                      IF outcome.recordMeeting = "resolved"
                      THEN StatusOnReturn(config) ELSE StatusOnThrow(config)]
    /\ UNCHANGED <<config, reuse, driver, s3Client, counts, trace, slept, logs,
                   storage, stop, page>>

(***************************************************************************)
(* Specification                                                            *)
(***************************************************************************)
Next ==
    \/ handlerMissingUrl
    \/ constructor
    \/ initializeDriver
    \/ joinMeeting
    \/ joinMeeting_signIn
    \/ joinMeeting_enter
    \/ setupRecording
    \/ setupRecording_inject
    \/ setupRecording_sleep
    \/ recordMeeting_sleep
    \/ stopRecording_readState
    \/ stopRecording_call
    \/ stopRecording_settled
    \/ stopRecording_scriptTimeout
    \/ stopRecording_debug
    \/ stopRecording_recover
    \/ stopRecording_poll
    \/ stopRecording_timeout
    \/ saveRecording_retrieve
    \/ saveRecording_persist
    \/ uploadSettles
    \/ saveRecording_clear
    \/ recordMeeting_saved
    \/ recordMeeting_catch
    \/ cleanup
    \/ handler_return
    \/ page_setup
    \/ page_dataavailable
    \/ page_timer
    \/ page_stopEvent
    \/ page_readerEnd

Spec == Init /\ [][Next]_vars

\* the Node event loop and the browser run every task that is ready
FairSpec == Spec /\ WF_vars(Next)

\* the steps of the Node side: the handler, recordMeeting and the settling of
\* the requests it has sent
ControllerNext ==
    \/ handlerMissingUrl
    \/ constructor
    \/ initializeDriver
    \/ joinMeeting
    \/ joinMeeting_signIn
    \/ joinMeeting_enter
    \/ setupRecording
    \/ setupRecording_inject
    \/ setupRecording_sleep
    \/ recordMeeting_sleep
    \/ stopRecording_readState
    \/ stopRecording_call
    \/ stopRecording_settled
    \/ stopRecording_scriptTimeout
    \/ stopRecording_debug
    \/ stopRecording_recover
    \/ stopRecording_poll
    \/ stopRecording_timeout
    \/ saveRecording_retrieve
    \/ saveRecording_persist
    \/ uploadSettles
    \/ saveRecording_clear
    \/ recordMeeting_saved
    \/ recordMeeting_catch
    \/ cleanup
    \/ handler_return

\* the steps of the page's event loop
PageNext ==
    \/ page_setup
    \/ page_dataavailable
    \/ page_timer
    \/ page_stopEvent
    \/ page_readerEnd

\* the Node event loop runs every continuation that is ready, every driver
\* command and every timer of the controller ends; nothing is assumed of
\* the page, whose tasks (and the stop promise with them) may never run
ControllerFairSpec ==
    Init /\ [][ControllerNext \/ PageNext]_vars /\ WF_vars(ControllerNext)

\* a session in which the recorder may also end on its own.  The browser
\* runs every task of the page that is ready; nothing is assumed of the
\* controller, nor of the recorder ending.
PageFairNext == Next \/ page_recorderEnds

PageFairSpec == Init /\ [][PageFairNext]_vars /\ WF_vars(PageNext)

(***************************************************************************)
(* The setup task of the capture script on its own: a local session right  *)
(* after setupRecording injected the script, for every document of Doms,   *)
(* and the one task that runs steps 1-4.                                    *)
(***************************************************************************)
ScriptInit ==
    /\ config = [entry |-> "direct", hasUrl |-> TRUE, storageType |-> "local",
                 s3Config |-> "absent", durationMinutes |-> 1]
    /\ pc = "setupSleep"
    /\ driver = "live"
    /\ s3Client = FALSE
    /\ counts = [quit |-> 0, cleanup |-> 0, browsers |-> 1, screenshots |-> 0,
                 recoveries |-> 0]
    /\ trace = <<"init", "join", "setup">>
    /\ slept = 0
    /\ logs = {"Session started"}
    /\ storage = [localRecordings |-> 0, s3Recordings |-> 0,
                  localScreenshots |-> 0, s3Screenshots |-> 0,
                  upload |-> "none", retrieved |-> <<>>,
                  files |-> {}, objects |-> {}, fsCalls |-> <<>>,
                  written |-> <<>>, uploaded |-> <<>>]
    /\ stop = StopInit
    /\ outcome = [ctor |-> "ok", failedAt |-> "none",
                  completed |-> {"init", "join"}, optional |-> "none",
                  recordMeeting |-> "none", statusCode |-> 0]
    /\ \E d \in Doms, types \in SUBSET MimeTypes :
        page = [ScriptStart(PageInit) EXCEPT !.dom = d, !.supported = types]
    /\ reuse = ReuseIdle

script_run ==
    /\ PageAlive
    /\ page.script = "requesting"
    /\ \E screen \in ScreenResults, audio \in AudioResults,
          combineOk \in BOOLEAN, rec \in RecorderResults :
        page' = SetupLocals(ScriptSetup(page, screen, audio, combineOk, rec,
                                        SelectMimeType(page.supported)),
                            screen, audio, combineOk, page.dom)
    /\ UNCHANGED <<config, reuse, pc, driver, s3Client, counts, trace, slept, logs,
                   storage, stop, outcome>>

ScriptNext == script_run

ScriptSpec == ScriptInit /\ [][ScriptNext]_vars

(***************************************************************************)
(* recordMeeting called twice on one instance.  Only the fields the two     *)
(* calls share are followed: this.driver, written by initializeDriver and   *)
(* read by cleanup.  Call i starts browser i; the stages between            *)
(* initializeDriver and the catch block leave this.driver alone and are one *)
(* step that returns or throws.  The calls interleave at their awaits; call *)
(* 2 is made once call 1 has been made, before or after call 1 returned.    *)
(***************************************************************************)
ReuseUnchanged ==
    UNCHANGED <<config, pc, driver, s3Client, counts, trace, slept, logs,
                storage, stop, outcome, page>>

\* recordMeeting(): entry of call i, up to `await new Builder()...build()`
reuse_recordMeeting(i) ==
    /\ reuse.calls[i] = "idle"
    /\ i = 2 => reuse.calls[1] # "idle"
    /\ reuse' = [reuse EXCEPT !.calls[i] = "build"]
    /\ ReuseUnchanged

\* this.driver = await ...build(): the browser of call i starts and replaces
\* whatever this.driver held; a failed build throws with the field untouched
reuse_initializeDriver(i) ==
    /\ reuse.calls[i] = "build"
    /\ \E ok \in BOOLEAN :
        reuse' = IF ok
                 THEN [reuse EXCEPT !.calls[i] = "stages", !.driver = i,
                                    !.started = @ \cup {i}]
                 ELSE [reuse EXCEPT !.calls[i] = "catch"]
    /\ ReuseUnchanged

\* joinMeeting ... saveRecording: they return or throw
reuse_stages(i) ==
    /\ reuse.calls[i] = "stages"
    /\ \E ok \in BOOLEAN :
        reuse' = [reuse EXCEPT !.calls[i] = IF ok THEN "finally" ELSE "catch"]
    /\ ReuseUnchanged

\* the catch block: the screenshot of this.driver, best effort
reuse_catch(i) ==
    /\ reuse.calls[i] = "catch"
    /\ reuse' = [reuse EXCEPT !.calls[i] = "finally"]
    /\ ReuseUnchanged

\* cleanup(): await this.driver?.quit() on the browser this.driver holds
\* now; the field is not reset
reuse_cleanup(i) ==
    /\ reuse.calls[i] = "finally"
    /\ reuse' = IF reuse.driver = NoBrowser
                THEN [reuse EXCEPT !.calls[i] = "returned"]
                ELSE [reuse EXCEPT !.calls[i] = "returned",
                                   !.quits[reuse.driver] = @ + 1]
    /\ ReuseUnchanged

ReuseNext ==
    \/ \E i \in Calls : reuse_recordMeeting(i)
    \/ \E i \in Calls : reuse_initializeDriver(i)
    \/ \E i \in Calls : reuse_stages(i)
    \/ \E i \in Calls : reuse_catch(i)
    \/ \E i \in Calls : reuse_cleanup(i)

ReuseSpec == Init /\ [][ReuseNext]_vars

(***************************************************************************)
(* Properties                                                               *)
(***************************************************************************)
InTrace(stage) == \E i \in DOMAIN trace : trace[i] = stage
LastStage == IF trace = <<>> THEN "none" ELSE trace[Len(trace)]

\* recordMeeting has returned to its caller
SessionEnded == pc \in {"returned", "done"} /\ outcome.ctor = "ok"

\* a recording file or object was written, or its upload was started
RecordingWritten ==
    \/ storage.localRecordings > 0
    \/ storage.s3Recordings > 0
    \/ storage.upload # "none"

\* the recording reached every destination of the storage mode
RecordingPersisted ==
    /\ SavesLocal(config) => storage.localRecordings > 0
    /\ SavesS3(config) => storage.s3Recordings > 0

\* C1 (as stated): in every session, whichever single stage fails, driver.quit
\* is invoked exactly once.
C1_QuitExactlyOnce ==
    SessionEnded => counts.quit = 1

\* C1 (amended): cleanup runs exactly once per recordMeeting session, and
\* driver.quit is invoked once for a browser that was started and not at all
\* when initializeDriver failed; never more than once.
C1_CleanupOnceQuitIfStarted ==
    /\ counts.cleanup <= 1 /\ counts.quit <= 1
    /\ SessionEnded => counts.cleanup = 1 /\ counts.quit = counts.browsers
    /\ SessionEnded /\ outcome.failedAt = "init" => counts.quit = 0

C1_Witness ==
    /\ pc = "done" /\ outcome.failedAt = "stop"
    /\ counts.cleanup = 1 /\ counts.quit = 1

\* C2 (as stated): every session, a fatal configuration error at INIT
\* included, executes cleanup before it ends, as its last step.
C2_CleanupFromEveryEntry ==
    pc = "done" /\ outcome.ctor # "none" =>
        counts.cleanup >= 1 /\ LastStage = "cleanup"

C2_CleanupLast ==
    /\ SessionEnded => counts.cleanup = 1 /\ LastStage = "cleanup"
    /\ outcome.ctor = "threw" => counts.cleanup = 0 /\ trace = <<>>

\* C2 (amended): every session in which recordMeeting is invoked reaches
\* cleanup, also after an exception in any stage, and cleanup is the last stage
\* it executes; a fatal configuration error is thrown by the constructor and
\* ends the session without cleanup.
C2_CleanupReached ==
    /\ []C2_CleanupLast
    /\ (pc = "constructed") ~> (pc = "done" /\ counts.cleanup = 1)

C2_Witness ==
    /\ pc = "done" /\ outcome.failedAt = "setup"
    /\ counts.cleanup = 1 /\ LastStage = "cleanup"

\* C3: recordMeeting never rejects, also when the diagnostic screenshot or
\* driver.quit fails.
C3_NeverRejects ==
    outcome.recordMeeting # "rejected"

\* C4: with storage mode s3 or both and remote-storage credentials missing
\* (no s3Config, or one of its fields absent) the session fails with a
\* configuration error before a browser is started or a storage client made.
C4_MissingCredentialsFatal ==
    /\ config.storageType \in {"s3", "both"}
    /\ config.s3Config \in {"absent", "partial"}
    => /\ pc # "new" => outcome.ctor = "threw"
       /\ counts.browsers = 0
       /\ ~s3Client

\* C5: the handler returns 200 only when the recording was captured and
\* persisted, and 500 for every session that fails at some stage.
C5_StatusReflectsOutcome ==
    pc = "done" /\ config.entry = "handler" /\ outcome.ctor = "ok" =>
        /\ outcome.statusCode = 200 => RecordingPersisted
        /\ outcome.failedAt # "none" => outcome.statusCode = 500

\* C6: a retrieval or persistence error puts the session on the failure path:
\* the diagnostic screenshot is attempted before cleanup and the session does
\* not report the recording as saved.
C6_SaveErrorsDiagnosed ==
    SessionEnded /\ InTrace("retrieve") /\ ~RecordingPersisted =>
        /\ InTrace("diagnose")
        /\ "Recording saved to storage" \notin logs

\* C7: a recording is written only in a session in which initializeDriver,
\* joinMeeting, setupRecording and stopRecording all returned normally; a
\* session that failed in a stage (join timeout, poll exhaustion) writes none.
C7_RecordingOnlyAfterStages ==
    /\ RecordingWritten =>
          {"init", "join", "setup", "stop"} \subseteq outcome.completed
    /\ outcome.failedAt # "none" => ~RecordingWritten

C7_Witness ==
    /\ storage.localRecordings = 1 /\ storage.s3Recordings = 1
    /\ {"init", "join", "setup", "stop"} \subseteq outcome.completed

StageRank(stage) ==
    CASE stage = "init" -> 1 [] stage = "join" -> 2 [] stage = "setup" -> 3
      [] stage = "wait" -> 4 [] stage = "stop" -> 5 [] stage = "retrieve" -> 6
      [] stage = "persist" -> 7 [] stage = "diagnose" -> 8
      [] stage = "cleanup" -> 9

\* C8: the stages run in the order init, join, setup, wait, stop, retrieve,
\* persist, cleanup; no stage runs twice and none is skipped when the session
\* succeeds.
C8_StagesInOrderOnce ==
    /\ \A i, j \in DOMAIN trace :
          i < j => StageRank(trace[i]) < StageRank(trace[j])
    /\ SessionEnded /\ RecordingPersisted =>
          trace = <<"init", "join", "setup", "wait", "stop", "retrieve",
                    "persist", "cleanup">>

C10_PollBounded ==
    /\ stop.attempts <= maxAttempts
    /\ stop.reads = stop.attempts
    /\ stop.waitMs <= maxAttempts * intervalMs
    /\ pc = "poll" =>
          stop.attempts < maxAttempts /\ stop.waitMs = stop.attempts * intervalMs
    /\ pc = "pollTimeout" =>
          /\ stop.attempts = maxAttempts /\ ~stop.videoAvailable
          /\ stop.waitMs = (maxAttempts - 1) * intervalMs
    /\ pc = "save" =>
          /\ stop.videoAvailable /\ stop.lastAvailable
          /\ stop.waitMs = (stop.attempts - 1) * intervalMs

\* C10: the poll loop terminates: at most maxAttempts reads (a throwing read
\* counts), 3 s apart, at most maxAttempts * intervalMs of waiting; it ends on
\* the first read that finds the video data or, after the last read, with the
\* timeout error.
C10_PollTerminates ==
    /\ []C10_PollBounded
    /\ (pc = "poll") ~> (pc \in {"save", "pollTimeout"})

C10_Witness ==
    pc = "pollTimeout" /\ stop.attempts = maxAttempts /\ stop.lastRead = "threw"

\* C11: between the injection of the capture script and the stop request the
\* controller has waited durationMinutes * 60 * 1000 ms in total, once.
C11_WaitsOnce ==
    pc = "stop" => slept = DurationMs(config)

\* the local write and the upload of a both-mode session have both settled
BothSettled ==
    /\ config.storageType = "both"
    /\ InTrace("persist")
    /\ storage.upload \in {"done", "failed"}

LocalFailed == "Local save failed" \in logs

C12_OneOfTwo ==
    config.storageType = "both" =>
        /\ InTrace("persist") => storage.upload # "none"
        /\ BothSettled /\ LocalFailed /\ storage.upload = "done" =>
              /\ storage.localRecordings = 0 /\ storage.s3Recordings = 1
              /\ "Video uploaded to S3" \in logs
              /\ "S3 upload failed" \notin logs
              /\ "Video saved locally" \notin logs
        /\ BothSettled /\ ~LocalFailed /\ storage.upload = "failed" =>
              /\ storage.localRecordings = 1 /\ storage.s3Recordings = 0
              /\ "Video saved locally" \in logs
              /\ "S3 upload failed" \in logs
              /\ "Video uploaded to S3" \notin logs

\* nothing that was written is removed again
C12_NoRollback ==
    /\ storage'.localRecordings >= storage.localRecordings
    /\ storage'.s3Recordings >= storage.s3Recordings

C13_AwaitedJointly ==
    config.storageType = "both" /\ storage.upload = "inflight" =>
        pc \in {"persist", "awaitUpload"}

\* C14: on the failure path the diagnostic screenshot goes to exactly the
\* destinations of the storage mode: local writes a file, s3 uploads an
\* object, both does both.
C14_ScreenshotFollowsMode ==
    /\ config.storageType \in {"local", "s3", "both"}
    /\ InTrace("diagnose") /\ "Error screenshot saved" \in logs
    => /\ SavesLocal(config) <=> storage.localScreenshots > 0
       /\ SavesS3(config) <=> storage.s3Screenshots > 0

\* the directory a file or object is in: the path without its last segment
Dirname(p) == SubSeq(p, 1, Len(p) - 1)

ScreenshotFiles == {f \in storage.files : Basename(f) = "error-screenshot.png"}
ScreenshotObjects ==
    {k \in storage.objects : Basename(k) = "error-screenshot.png"}

\* C15: in every storage mode the diagnostic screenshot is stored under a
\* screenshots/ path next to recordings/: <outputDirectory>/screenshots/...
\* locally, <group>/screenshots/... in S3.
C15_ScreenshotsSiblingPath ==
    /\ \A f \in ScreenshotFiles :
          Dirname(f) = PathJoin(OutputDirectory(config), <<"screenshots">>)
    /\ \A k \in ScreenshotObjects :
          Dirname(k) = <<UsernameGroup(config), "screenshots">>

\* C16: every local persistence makes the recordings directory when it is
\* missing, writes the file, and afterwards reads the head of the written
\* file back to compare it with the container signature.
C16_WriteThenVerify ==
    storage.localRecordings > 0 =>
        \E i, j \in DOMAIN storage.fsCalls :
            /\ i < j
            /\ storage.fsCalls[i] = "writeFileSync"
            /\ storage.fsCalls[j] = "readSync"

\* the first n chunks in delivery order
Delivered(n) == [i \in 1..n |-> i]

C17_InOrder ==
    /\ page.chunks = Delivered(Len(page.chunks))
    /\ \A i \in DOMAIN page.readers :
          \E n \in 1..Len(page.chunks) :
              page.readers[i] = BlobBytes(Delivered(n))
    /\ page.chunks # <<>> =>
          BlobBytes(StopParts(page.chunks)) = BlobBytes(page.chunks)

\* recorder.onstop assembles every chunk delivered so far
C17_StopAssemblesAll ==
    page'.assembled = page.assembled + 1 =>
        page'.readers[Len(page'.readers)] = BlobBytes(page'.chunks)

\* so does the emergency recovery
C17_RecoveryAssemblesAll ==
    pc = "recover" /\ pc' = "poll" /\ Available(page') =>
        FromBase64(StripDataUrl(page'.base64)) = BlobBytes(page.chunks)

\* C17: the assembled artifact is the concatenation of the non-empty chunks
\* the recorder has delivered, in delivery order and with the first chunk
\* first, on the stop path and on the emergency-recovery path alike; the two
\* ways of assembling give the same bytes for the same chunk sequence.
C17_ConcatenationInOrder ==
    /\ []C17_InOrder
    /\ [][C17_StopAssemblesAll /\ C17_RecoveryAssemblesAll]_vars

C17_Witness ==
    /\ Len(page.chunks) = 2
    /\ \E i \in DOMAIN page.readers :
          page.readers[i] = Signature \o <<2>>

\* the byte sequences a session can assemble
ChunkConcats == {BlobBytes(Delivered(n)) : n \in 1..MaxChunks}

HeaderValid(bytes) ==
    Len(bytes) >= 4 /\ SubSeq(bytes, 1, 4) = Signature

C18_Decoded ==
    /\ storage.retrieved # <<>> =>
          FromBase64(storage.retrieved) \in ChunkConcats
    /\ storage.localRecordings > 0 =>
          storage.written \in ChunkConcats /\ HeaderValid(storage.written)
    /\ storage.s3Recordings > 0 =>
          storage.uploaded \in ChunkConcats /\ HeaderValid(storage.uploaded)
    /\ storage.localRecordings > 0 /\ storage.s3Recordings > 0 =>
          storage.written = storage.uploaded

\* what getRecordedVideo returns decodes to the blob the page encoded
C18_RetrievesEncoded ==
    pc = "save" /\ pc' = "persist" =>
        \E n \in 1..Len(page.chunks) :
            /\ page.base64 = ReadAsDataURL(page.mimeType, BlobBytes(Delivered(n)))
            /\ FromBase64(storage'.retrieved) = BlobBytes(Delivered(n))

\* C18: the hand-off is a round trip: the bytes written to the local file and
\* sent to S3 are the chunk concatenation the page encoded as a base64 data
\* URL, so they begin with the first chunk's container signature.
C18_HandOffRoundTrip ==
    /\ []C18_Decoded
    /\ [][C18_RetrievesEncoded]_vars

C18_Witness ==
    /\ storage.written = Signature \o <<2>>
    /\ storage.uploaded = Signature \o <<2>>
    /\ pc = "done"

\* the position of a capture state on the path uninitialized, initializing,
\* recording, stopping, processing, completed | failed
StateRank(st) ==
    CASE st = "unknown" -> 0 [] st = "initializing" -> 1
      [] st = "recording" -> 2 [] st = "stopping" -> 3
      [] st = "processing" -> 4 [] st = "completed" -> 5
      [] st = "failed" -> 5

Terminal(st) == st \in {"completed", "failed"}

\* a step of a living page (the window is gone once the browser has quit)
C19_Forward ==
    driver' = "live" /\ driver = "live" =>
        /\ StateRank(page'.recordingState) >= StateRank(page.recordingState)
        /\ Terminal(page.recordingState) =>
              page'.recordingState = page.recordingState

\* what one more call of window.stopScreenRecording would do
C19_StopAgainKeeps ==
    page.stopFn /\ Terminal(page.recordingState) =>
        stopScreenRecording(page).recordingState = page.recordingState

\* C19: the capture state only moves forward along initializing, recording,
\* stopping, processing, completed (or failed), and once it is completed or
\* failed nothing changes it, a further call of the stop entry point
\* included.
C19_StateOnlyForward ==
    /\ [][C19_Forward]_vars
    /\ []C19_StopAgainKeeps

UnrecoverableErrors ==
    {"Screen capture failed", "No recorder available",
     "No recording chunks available", "FileReader error"}

\* C20: every unrecoverable error of the capture runtime sets the capture
\* state to failed with a reason: a failed screen-capture request, after
\* which there is no recorder, no stop entry point and no chunk, and every
\* error on the stop path, which also rejects the caller's promise.
C20_ErrorsSetFailed ==
    /\ page.recordingError \in UnrecoverableErrors =>
          page.recordingState = "failed"
    /\ page.recordingError = "Screen capture failed" =>
          page.recorder = "none" /\ ~page.stopFn /\ page.chunks = <<>>
    /\ page.recordingError \in UnrecoverableErrors \ {"Screen capture failed"} =>
          page.promise = "rejected"

UsableElements(d) ==
    {e \in d : e.srcObject /\ ~e.muted /\ e.selfViewAt \notin 1..5}

\* C29: when the audio setup completes without throwing, the recorded stream
\* has an audio track in every case, and the silent source is connected
\* exactly when the document has no usable audio element (as the spec states
\* it)
C29_AudioTrackAlways ==
    page.audioSetup = "ok"
        => /\ page.stream.audio >= 1
           /\ (page.silent <=> UsableElements(page.dom) = {})

\* C29, as the code has it: the audio track is in the recorded stream when
\* the streams were combined, and missing when the raw screen stream is
\* recorded instead
C29_AudioTrackWhenCombined ==
    page.audioSetup = "ok"
        => /\ (page.stream.audio >= 1 <=> page.combined)
           /\ page.destination
           /\ page.usable = Cardinality(UsableElements(page.dom))
           /\ (page.silent <=> UsableElements(page.dom) = {})

C29_Witness ==
    /\ page.audioSetup = "ok"
    /\ page.combined
    /\ page.stream.audio = 1
    /\ ~page.silent
    /\ page.usable = 1

\* C30: whenever the capture state is `recording`, and whenever a recorder
\* was created at all, the stream handed to it has a video track, also when
\* the raw screen stream is recorded because combining failed
C30_RecordingHasVideo ==
    /\ page.recordingState = "recording" => page.stream.video >= 1
    /\ page.recorder # "none" => page.stream.video >= 1
    /\ page.script = "ended" /\ ~page.combined /\ page.audioSetup # "none"
           => page.stream = [video |-> 1, audio |-> 0]

C30_Witness ==
    /\ page.recordingState = "recording"
    /\ page.recordingError = "Stream combination failed"
    /\ page.stream.video = 1

\* C22: when the session is declared failed because no video appeared, the
\* stop call having reported the entry point missing or an error, and chunks
\* exist in the page, the emergency recovery has been attempted
C22_RecoveryBeforeFailure ==
    /\ pc = "pollTimeout"
    /\ stop.result \in {"Stop function not found", "Error during stop"}
    /\ Len(page.chunks) > 0
    => counts.recoveries > 0

Switched == page'.switches = page.switches + 1

AllPersisted ==
    /\ SavesLocal(config) => /\ storage.localRecordings >= 1
                             /\ RecordingPath(config) \in storage.files
    /\ SavesS3(config) => /\ storage.upload = "done"
                          /\ RecordingKey(config) \in storage.objects

\* the positions of the controller inside saveRecording
InSaveRecording == pc \in {"save", "persist", "awaitUpload", "clear"}

\* C27: saveRecording runs the clearing script only when every destination
\* of the storage mode has persisted the artifact, and no other step of
\* saveRecording (retrieval returning nothing, a failing destination)
\* changes window.recordedVideoBase64
C27_ClearedOnlyWhenPersisted ==
    /\ [](pc = "clear" => AllPersisted /\ storage.retrieved # <<>>)
    /\ [][InSaveRecording /\ pc' # pc /\ page'.base64 # page.base64
            => /\ pc = "clear"
               /\ AllPersisted
               /\ page'.base64 = <<>>
               /\ "Video save failed" \notin logs']_vars

C27_Witness ==
    /\ pc = "afterSave"
    /\ config.storageType = "both"
    /\ AllPersisted
    /\ storage.retrieved # <<>>
    /\ page.base64 = <<>>
    /\ "Video save failed" \notin logs

\* C26: once the catch block of recordMeeting has run, the error of the
\* failed stage is in the log (by the catch block, or by the stage itself),
\* whatever became of the diagnostic screenshot
C26_ErrorLoggedBeforeCleanup ==
    InTrace("diagnose")
        => \/ "Recording failed" \in logs
           \/ outcome.failedAt = "stop" /\ "Failed to stop recording" \in logs

\* what a step of the controller leaves alone when it only moves on
OnlyMovesOn ==
    UNCHANGED <<config, reuse, driver, s3Client, counts, slept, logs, storage, stop,
                page>>

\* C25: an optional step (sign-in prompt in joinMeeting; microphone, camera
\* and safety popup in setupRecording) never aborts the session: whatever its
\* result, the controller is next at the mandatory step that follows (name
\* entry, respectively waiting for the meeting and injecting the script),
\* in the state it would have after a success, and that step does not depend
\* on the result
C25_OptionalFailureContinues ==
    /\ [](outcome.optional # "none"
            => /\ pc \in {"nameInput", "inject"}
               /\ outcome.failedAt = "none")
    /\ [][/\ pc = "signIn"
              => pc' = "nameInput" /\ OnlyMovesOn /\ trace' = trace
          /\ pc = "setup"
              => pc' = "inject" /\ OnlyMovesOn
                 /\ trace' = Append(trace, "setup")
          /\ pc \in {"signIn", "setup"}
              => outcome' = [outcome EXCEPT !.optional = outcome'.optional]
          /\ pc \in {"nameInput", "inject"} /\ pc' # pc
              => outcome'.optional = "none"]_vars

C25_Witness ==
    /\ pc = "inject"
    /\ outcome.optional = "micFailed"
    /\ outcome.completed = {"init", "join"}
    /\ page.script = "none"

\* recordMeeting has settled
Returned == outcome.recordMeeting # "none"

\* C24: every started session terminates: recordMeeting returns on every
\* path, the waits being bounded (the two duration sleeps, the stop call, the
\* poll of maxAttempts reads), also when the promise of the stop entry point
\* never settles
C24_SessionTerminates ==
    /\ [](/\ slept <= 2 * DurationMs(config)
          /\ stop.attempts <= maxAttempts
          /\ stop.waitMs <= (maxAttempts - 1) * intervalMs)
    /\ (pc = "constructed") ~> Returned

C24_Witness ==
    /\ pc = "finally"
    /\ InTrace("diagnose")
    /\ outcome.failedAt = "stop"
    /\ stop.attempts = 0
    /\ page.promise = "pending"

\* the media type of a data URL: what stands between "data:" and ";base64,"
TypeOf(url) ==
    SubSeq(url, Len(DataScheme) + 1, IndexOf(url, <<66>> \o Base64Marker) - 1)

\* the earliest supported entry of the preference list, the generic type when
\* there is none
PreferredType(supported) ==
    IF \E i \in DOMAIN mimeTypes : mimeTypes[i] \in supported
    THEN mimeTypes[CHOOSE i \in DOMAIN mimeTypes :
                      /\ mimeTypes[i] \in supported
                      /\ \A j \in 1..(i - 1) : mimeTypes[j] \notin supported]
    ELSE "video/webm"

\* C31: once the screen capture has succeeded the capture state holds the
\* first supported type of the preference list (video/webm when none is
\* supported), also when the recorder could not be created, and a blob
\* assembled from the recorded chunks on the normal or on the emergency path
\* is encoded under that type
C31_FirstSupportedCodec ==
    /\ page.mimeType # "none" => page.mimeType = PreferredType(page.supported)
    /\ page.script = "ended" /\ page.recordingError # "Screen capture failed"
           => page.mimeType # "none"
    /\ page.recorder = "recording"
           => LET p == ondataavailable(page, page.timeslice)
                  normal == ReaderEnd(onstopHandler(p), 1, TRUE).base64
                  emergency == EmergencyRecovery(p, TRUE).base64
              IN  /\ TypeOf(normal) = MimeChars(PreferredType(page.supported))
                  /\ TypeOf(emergency) = TypeOf(normal)

C31_Witness ==
    /\ page.supported = {"video/webm;codecs=vp9,opus", "video/webm"}
    /\ page.mimeType = "video/webm;codecs=vp9,opus"
    /\ page.recorder = "recording"

\* C32: the stop script of stopRecording is executed in the page only after
\* the setup task of the capture script has ended (with the recorder started
\* or with an error), never while it is still awaiting the screen capture
C32_StopAfterSetup ==
    [][pc = "stopCall" /\ pc' \in {"stopAwait", "debug"}
         => page.script = "ended"]_vars

\* C33: the stop-processing handler assembles the artifact once per call of
\* the stop entry point (one call per session), and not at all without one:
\* the stop event of the chunk-switch timer never runs it
C33_AssembledOncePerStop ==
    /\ page.assembled <= 1
    /\ page.assembled = 1 => page.promise # "none"

C36_CompletedHasArtifact ==
    page.recordingState = "completed" /\ ~InTrace("retrieve")
        => Available(page) /\ page.released

\* something was sent, or is being sent, to the object storage
UploadStarted ==
    \/ storage.upload # "none"
    \/ storage.s3Recordings > 0
    \/ storage.s3Screenshots > 0
    \/ storage.objects # {}

\* C37: a constructed recorder has a storage client exactly when the storage
\* mode is s3 or both; without a client nothing is ever sent to the object
\* storage, neither the recording nor the diagnostic screenshot (local mode
\* included); with the mode left unspecified saveRecording attempts the local
\* write and fails on the remote save without starting an upload
C37_NoUploadWithoutClient ==
    /\ outcome.ctor = "ok" => (s3Client <=> config.storageType \in {"s3", "both"})
    /\ outcome.ctor # "ok" => ~s3Client
    /\ UploadStarted => s3Client
    /\ config.storageType = "local" => ~UploadStarted
    /\ config.storageType = "unspecified" /\ InTrace("persist")
           => /\ "writeFileSync" \in {storage.fsCalls[i] : i \in DOMAIN storage.fsCalls}
              /\ storage.localRecordings = 1 <=> "Video saved locally" \in logs
              /\ "Video save failed" \in logs
              /\ ~UploadStarted

C37_Witness ==
    /\ config.storageType = "unspecified"
    /\ pc = "afterSave"
    /\ storage.localRecordings = 1
    /\ "Video save failed" \in logs
    /\ ~UploadStarted

\* stopRecording threw because the poll was exhausted
PollExhausted == "Timed out waiting for video data" \in logs

\* C39: a session that fails by exhausting the stop poll takes two diagnostic
\* screenshots, the one of stopRecording being stored (when it is stored) in
\* the local output directory in every storage mode, the other taken by the
\* catch block of recordMeeting; a session that fails otherwise takes at most
\* one
C39_TwoScreenshotsOnPollTimeout ==
    /\ [](/\ counts.screenshots <= 2
          /\ PollExhausted => outcome.failedAt = "stop"
          /\ PollExhausted /\ ~InTrace("diagnose") => counts.screenshots = 1
          /\ PollExhausted /\ InTrace("diagnose") => counts.screenshots = 2
          /\ ~PollExhausted => counts.screenshots <= 1
          /\ ~PollExhausted /\ ~InTrace("diagnose") => counts.screenshots = 0)
    /\ [][pc = "pollTimeout" /\ pc' # pc
            => /\ counts'.screenshots = counts.screenshots + 1
               /\ storage'.objects = storage.objects
               /\ storage'.s3Screenshots = storage.s3Screenshots
               /\ storage' # storage
                     => /\ storage'.localScreenshots = storage.localScreenshots + 1
                        /\ ScreenshotPath(config) \in storage'.files]_vars

C39_Witness ==
    /\ PollExhausted
    /\ config.storageType = "s3"
    /\ counts.screenshots = 2
    /\ storage.localScreenshots = 1
    /\ storage.s3Screenshots = 1

\* both recordMeeting calls made on the instance have returned
BothReturned == \A i \in Calls : reuse.calls[i] = "returned"

\* C38: when recordMeeting is called twice on one instance, every browser
\* started has received exactly one quit call once both calls have returned
C38_EveryBrowserQuitOnce ==
    BothReturned => \A b \in reuse.started : reuse.quits[b] = 1

====
